---------------------------- MODULE Spec2Model ----------------------------
(***************************************************************************)
(* Verification model of the QGIS "Treemap" plugin (src/treemap.py).       *)
(*                                                                         *)
(* Part 1: compute_treemap_rects, the recursive slice-and-dice             *)
(*         partitioner, as a RECURSIVE operator applied by the action      *)
(*         Call to inputs drawn in Init (specification Spec).              *)
(* Part 2: TreemapDialog, the caller: layer and field selection, the       *)
(*         position checkboxes, compute_statistics and                     *)
(*         create_treemap_layer (specification DialogSpec).                *)
(*                                                                         *)
(* Python floats are modelled as exact rationals <<n, d>> (d > 0, lowest   *)
(* terms): every comparison against the 1e-6 thresholds and every          *)
(* proportion is computed as the code computes it, without rounding.       *)
(***************************************************************************)
EXTENDS Integers, Sequences, FiniteSets

VARIABLES
    sizes,        \* argument: the weights, a sequence of rationals
    outer_rect,   \* argument: <<x0, y0, x1, y1>>, each a rational
    horizontal,   \* argument: the split orientation
    depth,        \* argument: the depth the call is entered with
    max_depth,    \* argument: the depth cap
    frames,       \* interpreter frames in use when the call is made
    pc,           \* "ready" | "returned" | "raised"
    rects,        \* the returned list of rectangles
    src,          \* ghost: src[i] = index in sizes that rects[i] was laid out for
    calls         \* ghost: one record per invocation of compute_treemap_rects

VARIABLES
    combo_items,      \* polygon_combo_box: the project's polygon layers
    combo_cur,        \* polygon_combo_box.currentIndex + 1 (0: no item)
    field_items,      \* field1_combo_box items
    field_cur,        \* field1_combo_box.currentIndex + 1 (0: no item)
    checked,          \* isChecked() of the Up/Down/Left/Right checkboxes
    self_layer,       \* self.layer, as a position in combo_items (0: None)
    count_dict,       \* self.count_dict: <<category, count>> in insertion order
    surface_dict_m2,  \* self.surface_dict_m2: <<category, list of areas>>
    project,          \* treemap layers added to QgsProject, oldest first
    msg,              \* the last QMessageBox shown
    last,             \* ghost: what the last create_treemap_layer went through
    cleared           \* ghost: how many boxes the last click's handler unchecked

pvars == <<sizes, outer_rect, horizontal, depth, max_depth, frames, pc, rects, src, calls>>

dvars == <<combo_items, combo_cur, field_items, field_cur, checked, self_layer,
           count_dict, surface_dict_m2, project, msg, last, cleared>>

vars == <<pvars, dvars>>

---------------------------------------------------------------------------
(* Bounds of the model *)

MaxLen == 3          \* longest enumerated weight list
MaxWeight == 2       \* largest enumerated integer weight
MaxDepth == 6        \* largest enumerated max_depth
MaxStartDepth == 1   \* largest enumerated starting depth

MaxGenerated == 1    \* treemap layers generated in one dialog session

(* Program constants *)

recursionlimit == 2000     \* sys.setrecursionlimit(2000)
MAX_CATEGORIES == 50       \* MAX_CATEGORIES = 50 in compute_statistics
DialogMaxDepth == 50       \* max_depth=50 in create_treemap_layer

---------------------------------------------------------------------------
(* Exact rational arithmetic standing for Python float arithmetic *)

Abs(n) == IF n < 0 THEN -n ELSE n

RECURSIVE GCD(_, _)
GCD(a, b) == IF b = 0 THEN a ELSE GCD(b, a % b)

RNorm(n, d) ==
    LET g == GCD(Abs(n), d) IN <<n \div g, d \div g>>

R(k) == <<k, 1>>

Zero == R(0)

RAdd(a, b) ==
    LET g == GCD(a[2], b[2])
    IN  RNorm(a[1] * (b[2] \div g) + b[1] * (a[2] \div g), (a[2] \div g) * b[2])

RNeg(a) == <<-a[1], a[2]>>

RSub(a, b) == RAdd(a, RNeg(b))

RMul(a, b) ==
    LET g1 == GCD(Abs(a[1]), b[2])
        g2 == GCD(Abs(b[1]), a[2])
    IN  RNorm((a[1] \div g1) * (b[1] \div g2), (a[2] \div g2) * (b[2] \div g1))

\* a / b for b > 0
RDiv(a, b) == RMul(a, <<b[2], b[1]>>)

\* n1/d1 < n2/d2, by integer parts and then reciprocals of the fractional
\* parts, so that no product is formed
RECURSIVE FracLess(_, _, _, _)
FracLess(n1, d1, n2, d2) ==
    LET q1 == n1 \div d1
        q2 == n2 \div d2
        r1 == n1 % d1
        r2 == n2 % d2
    IN  IF q1 # q2 THEN q1 < q2
        ELSE IF r2 = 0 THEN FALSE
        ELSE IF r1 = 0 THEN TRUE
        ELSE FracLess(d2, r2, d1, r1)

RLess(a, b) == FracLess(a[1], a[2], b[1], b[2])

RLeq(a, b) == ~RLess(b, a)

\* the literal 1e-6 used by every stability guard
Eps == <<1, 1000000>>

---------------------------------------------------------------------------
(* compute_treemap_rects *)

\* sum(sizes[lo..hi]), halving the range (the sum of exact rationals does
\* not depend on the order of the additions)
RECURSIVE SumRange(_, _, _)
SumRange(s, lo, hi) ==
    IF lo > hi THEN Zero
    ELSE IF lo = hi THEN s[lo]
    ELSE LET mid == (lo + hi) \div 2
         IN  RAdd(SumRange(s, lo, mid), SumRange(s, mid + 1, hi))

\* sum(sizes)
Sum(s) == SumRange(s, 1, Len(s))

\* the scan "for i, a in enumerate(sizes): acc += a; if acc >= half:
\* split_idx = i + 1; break": the first 1-based position at which the
\* running sum sizes[1] + .. + sizes[i] reaches half; 0 when the loop ends
\* without break
Scan(s, half) ==
    LET acc == [i \in 1..Len(s) |-> SumRange(s, 1, i)]
        hits == {i \in 1..Len(s) : RLeq(half, acc[i])}
    IN  IF hits = {} THEN 0 ELSE CHOOSE i \in hits : \A j \in hits : i <= j

\* half = total / 2.0; the scan; the fallback "if split_idx == 0: split_idx = 1"
\* (left_sizes = sizes[:split_idx] is SubSeq(sizes, 1, split_idx))
SplitIdx(s, total) ==
    LET k == Scan(s, RDiv(total, R(2)))
    IN  IF k = 0 THEN 1 ELSE k

\* "if not sizes or depth >= max_depth"
StopGuardStrict(s, d, md) == s = <<>> \/ d > md

StopGuard(s, d, md) == s = <<>> \/ d >= md

\* left_width = width * (sum(left_sizes) / total) if total > 0 else 0
\* (likewise left_height)
LeftExtent(extent, left_sizes, total) ==
    IF RLess(Zero, total) THEN RMul(extent, RDiv(Sum(left_sizes), total)) ELSE Zero

LeftRect(r, h, ext) ==
    IF h THEN <<r[1], r[2], RAdd(r[1], ext), r[4]>>
    ELSE <<r[1], r[2], r[3], RAdd(r[2], ext)>>

RightRect(r, h, ext) ==
    IF h THEN <<RAdd(r[1], ext), r[2], r[3], r[4]>>
    ELSE <<r[1], RAdd(r[2], ext), r[3], r[4]>>

\* the orientation both recursive calls are given: "not horizontal"
SameHorizontal(h) == h

ChildHorizontal(h) == ~h

\* "return left_geo + right_geo"
ConcatSwapped(left_geo, right_geo) == right_geo \o left_geo

Concat(left_geo, right_geo) == left_geo \o right_geo

\* The single-element return is tested before the 1e-6 floor on the total.
SingleAfterFloor(s, total) == Len(s) = 1 /\ ~RLess(total, Eps)

SingleGuard(s, total) == Len(s) = 1

\* The record of one invocation (ghost).  par is <<>> for the outermost call
\* and <<[horizontal, rect]>> of the calling invocation otherwise; split_idx
\* is 0 when the invocation returns before the split step.
CallRec(s, r, h, d, par, k) ==
    [sizes |-> s, rect |-> r, horizontal |-> h, depth |-> d, parent |-> par,
     split_idx |-> k]

\* What an invocation that does not recurse yields.
Ret(out, me) == [err |-> FALSE, out |-> out, calls |-> {me}]

\* compute_treemap_rects(sizes, outer_rect, horizontal, depth, max_depth),
\* entered with fr interpreter frames in use.  g is ghost: g.first is the
\* position of s[1] in the outermost weight list, g.parent the caller.
\* Result: err (RecursionError raised), out (the returned list, each
\* rectangle paired with the weight position it was laid out for), calls.
RECURSIVE compute_treemap_rects(_, _, _, _, _, _, _)
compute_treemap_rects(s, r, h, d, md, fr, g) ==
    LET me(k) == CallRec(s, r, h, d, g.parent, k) IN
    IF fr >= recursionlimit THEN [err |-> TRUE, out |-> <<>>, calls |-> {}]
    ELSE IF StopGuard(s, d, md) THEN Ret(<<>>, me(0))
    ELSE LET total == Sum(s) IN
    IF RLeq(total, Zero) THEN Ret(<<>>, me(0))
    ELSE IF SingleGuard(s, total) THEN Ret(<<[rect |-> r, src |-> g.first]>>, me(0))
    ELSE IF RLess(total, Eps) THEN Ret(<<>>, me(0))
    ELSE LET width == RSub(r[3], r[1])
             height == RSub(r[4], r[2])
         IN
    IF RLess(width, Eps) \/ RLess(height, Eps) THEN Ret(<<>>, me(0))
    ELSE LET split_idx == SplitIdx(s, total)
             left_sizes == SubSeq(s, 1, split_idx)
             right_sizes == SubSeq(s, split_idx + 1, Len(s))
             ext == LeftExtent(IF h THEN width ELSE height, left_sizes, total)
         IN
    IF RLess(ext, Eps) THEN Ret(<<>>, me(split_idx))
    ELSE LET par == <<[horizontal |-> h, rect |-> r]>>
             left_geo == compute_treemap_rects(left_sizes, LeftRect(r, h, ext),
                             ChildHorizontal(h), d + 1, md, fr + 1,
                             [first |-> g.first, parent |-> par])
             right_geo == compute_treemap_rects(right_sizes, RightRect(r, h, ext),
                             ChildHorizontal(h), d + 1, md, fr + 1,
                             [first |-> g.first + split_idx, parent |-> par])
         IN
    IF left_geo.err
    THEN [err |-> TRUE, out |-> <<>>, calls |-> {me(split_idx)} \cup left_geo.calls]
    ELSE IF right_geo.err
    THEN [err |-> TRUE, out |-> <<>>,
          calls |-> {me(split_idx)} \cup left_geo.calls \cup right_geo.calls]
    ELSE [err |-> FALSE, out |-> Concat(left_geo.out, right_geo.out),
          calls |-> {me(split_idx)} \cup left_geo.calls \cup right_geo.calls]

---------------------------------------------------------------------------
(* Inputs *)

\* 2.5e-7 and 7.5e-7: weights around the 1e-6 floor
Tiny == <<1, 4000000>>

TinyVals == {Tiny, <<3, 4000000>>}

IntVals == {R(k) : k \in 0..MaxWeight}

RECURSIVE SeqsUpTo(_, _)
SeqsUpTo(S, n) ==
    IF n = 0 THEN {<<>>}
    ELSE LET shorter == SeqsUpTo(S, n - 1)
         IN  shorter \cup {Append(q, x) : q \in {t \in shorter : Len(t) = n - 1}, x \in S}

\* the dominant-item example [10, 1, 1, 1, 1, 1, 1, 1, 1, 1, 1]
Dominant == <<R(10)>> \o [i \in 1..10 |-> R(1)]

\* four equal weights
FourOnes == [i \in 1..4 |-> R(1)]

\* lists of whole weights, lists of weights near the floor, the two examples
WeightLists ==
    SeqsUpTo(IntVals, MaxLen) \cup SeqsUpTo(TinyVals, MaxLen) \cup {Dominant, FourOnes}

\* (0,0,4,1) and an offset 2 x 3 box
FirstRect == <<R(0), R(0), R(4), R(1)>>

Rects == {FirstRect, <<R(1), R(1), R(3), R(4)>>}

\* a box 1.5e-6 wide (its halves are below 1e-6) and a box 5e-7 high
\* (below 1e-6 itself)
ThinRects ==
    { <<R(0), R(0), <<3, 2000000>>, R(1)>>,
      <<R(0), R(0), R(4), <<1, 2000000>>>> }

\* Calls from a shallow stack on ordinary and on thin rectangles; calls made
\* with the interpreter stack almost at sys.getrecursionlimit().
ExplicitCalls ==
    [sizes : WeightLists, outer_rect : Rects, horizontal : BOOLEAN,
     depth : 0..MaxStartDepth, max_depth : 0..MaxDepth, frames : {1}]

ThinCalls ==
    [sizes : WeightLists, outer_rect : ThinRects, horizontal : BOOLEAN,
     depth : {0}, max_depth : {MaxDepth}, frames : {1}]

DeepCalls ==
    [sizes : WeightLists, outer_rect : {FirstRect}, horizontal : {TRUE},
     depth : {0}, max_depth : 0..MaxDepth,
     frames : {recursionlimit - 3, recursionlimit - 2, recursionlimit - 1}]

Inputs == ExplicitCalls \cup ThinCalls \cup DeepCalls

---------------------------------------------------------------------------
(* TreemapDialog: the data it works on *)

\* aspect = 1.6
aspect == <<8, 5>>

\* math.sqrt on a rational whose numerator and denominator are perfect
\* squares, where it is exact (the layers below are built so that
\* total / aspect is one); otherwise the root is rounded down termwise.
RECURSIVE Bisect(_, _, _)
Bisect(n, lo, hi) ==
    IF lo >= hi THEN lo
    ELSE LET mid == (lo + hi + 1) \div 2
         IN  IF mid * mid <= n THEN Bisect(n, mid, hi) ELSE Bisect(n, lo, mid - 1)

ISqrt(n) == Bisect(n, 0, IF n < 46340 THEN n ELSE 46340)

Sqrt(q) == RNorm(ISqrt(q[1]), ISqrt(q[2]))

\* A polygon of a layer: its two attribute values (0 stands for a NULL or
\* empty value, which "if cat1:" skips) and feature.geometry().area().
Feature(c, z, a) == [cat |-> c, zone |-> z, area |-> a]

\* feature.attribute(field1_name)
Attribute(f, name) == IF name = "cat" THEN f.cat ELSE f.zone

Layer(nm, feats) ==
    [name |-> nm, fields |-> <<"cat", "zone">>, features |-> feats,
     extent |-> <<R(10), R(20), R(110), R(70)>>]

\* n categories of one polygon each, all of area 10 n; two zones
EqualLayer(n) ==
    Layer("equal", [i \in 1..n |-> Feature(i, 1 + (i % 2), R(10 * n))])

\* n categories listed by ascending total area: category c has c polygons
\* of area 10 T each (T = n (n + 1) / 2), after a first row with NULL
\* attributes; one zone
AscLayer(n) ==
    LET T == (n * (n + 1)) \div 2
        catOf(c) == [k \in 1..c |-> Feature(c, 1, R(10 * T))]
        RECURSIVE upTo(_)
        upTo(c) == IF c = 0 THEN <<Feature(0, 0, R(1))>> ELSE upTo(c - 1) \o catOf(c)
    IN  Layer("asc", upTo(n))

\* n categories of one polygon each, all of area 1.44e-7 n (a layer in a
\* geographic CRS, areas in square degrees); one zone
TinyLayer(n) ==
    Layer("tiny", [i \in 1..n |-> Feature(i, 1, RNorm(144 * n, 1000000000))])

LayerSet ==
    {EqualLayer(n) : n \in (0..4) \cup {MAX_CATEGORIES, MAX_CATEGORIES + 1}}
    \cup {AscLayer(n) : n \in 2..4}
    \cup {TinyLayer(n) : n \in 2..4}

\* The polygon layers of the QGIS project when the dialog is built: none,
\* one, or one of two pairs.
Projects ==
    {<<>>} \cup {<<l>> : l \in LayerSet}
    \cup {<<EqualLayer(2), TinyLayer(3)>>, <<AscLayer(3), EqualLayer(MAX_CATEGORIES + 1)>>}

Box(kind, title, text) == [kind |-> kind, title |-> title, text |-> text]

NoBox == Box("none", "", "")

Boxes == {"Up", "Down", "Left", "Right"}

---------------------------------------------------------------------------
(* TreemapDialog: its methods *)

\* polygon_combo_box.currentData(), field1_combo_box.currentText()
CurrentLayer == combo_items[combo_cur]

CurrentField == IF field_cur = 0 THEN "" ELSE field_items[field_cur]

\* the three checkboxes the branch of on_checkbox_changed for sender b
\* unchecks, in the order of the code
UnchecksFirstTwo(b) ==
    CASE b = "Up"    -> <<"Down", "Left">>
      [] b = "Down"  -> <<"Up", "Left">>
      [] b = "Left"  -> <<"Up", "Down">>
      [] b = "Right" -> <<"Up", "Down">>

Unchecks(b) ==
    CASE b = "Up"    -> <<"Down", "Left", "Right">>
      [] b = "Down"  -> <<"Up", "Left", "Right">>
      [] b = "Left"  -> <<"Up", "Down", "Right">>
      [] b = "Right" -> <<"Up", "Down", "Left">>

RECURSIVE on_checkbox_changed(_, _, _)
RECURSIVE setChecked(_, _, _)
RECURSIVE setCheckedAll(_, _, _)

\* QCheckBox.setChecked(v) on box x: nothing when the box is already in
\* that state; otherwise the box changes and emits stateChanged, which runs
\* on_checkbox_changed with sender() = x before setChecked returns
setChecked(cb, x, v) ==
    IF cb[x] = v THEN cb
    ELSE on_checkbox_changed([cb EXCEPT ![x] = v], x, v)

\* the setChecked(v) calls of one branch, one after the other
setCheckedAll(cb, xs, v) ==
    IF xs = <<>> THEN cb
    ELSE setCheckedAll(setChecked(cb, Head(xs), v), Tail(xs), v)

\* on_checkbox_changed(state) with sender() = b, after b changed to the
\* value on: state == 2 (Checked) runs the branch of the sender; any other
\* state does nothing
on_checkbox_changed(cb, b, on) ==
    IF on THEN setCheckedAll(cb, Unchecks(b), FALSE) ELSE cb

\* The dictionaries the loop over getFeatures() builds, as lists of pairs in
\* insertion order: the categories by first appearance.
Counted(feats, name) ==
    LET n == Len(feats)
        val == [i \in 1..n |-> Attribute(feats[i], name)]
        firsts == SelectSeq([i \in 1..n |-> i],
                      LAMBDA i : val[i] # 0 /\ \A j \in 1..(i - 1) : val[j] # val[i])
        keys == [p \in 1..Len(firsts) |-> val[firsts[p]]]
        rows == [p \in 1..Len(firsts) |->
                    SelectSeq(feats, LAMBDA f : Attribute(f, name) = keys[p])]
    IN  [count |-> [p \in 1..Len(firsts) |-> <<keys[p], Len(rows[p])>>],
         surface |-> [p \in 1..Len(firsts) |->
                        <<keys[p], [k \in 1..Len(rows[p]) |-> rows[p][k].area]>>]]

\* "if num_categories > MAX_CATEGORIES"
TooManyOffByOne(num_categories) == num_categories > MAX_CATEGORIES + 1

TooMany(num_categories) == num_categories > MAX_CATEGORIES

\* compute_statistics(): the value returned, the box shown and what is left
\* in self.layer, self.count_dict, self.surface_dict_m2; ncat (ghost) is
\* num_categories, 0 when the method returns before counting
compute_statistics ==
    LET keep(m) == [ok |-> FALSE, msg |-> m, self_layer |-> self_layer,
                    count_dict |-> count_dict, surface_dict_m2 |-> surface_dict_m2,
                    ncat |-> 0]
    IN
    IF combo_cur = 0
    THEN keep(Box("warning", "Error", "Please select a polygon layer."))
    ELSE IF CurrentField = ""
    THEN keep(Box("warning", "Error", "Please select the attribute field."))
    ELSE LET dicts == Counted(CurrentLayer.features, CurrentField)
             done(ok, m) == [ok |-> ok, msg |-> m, self_layer |-> combo_cur,
                             count_dict |-> dicts.count,
                             surface_dict_m2 |-> dicts.surface,
                             ncat |-> Len(dicts.count)]
         IN
    IF dicts.count = <<>>
    THEN done(FALSE, Box("critical", "Error", "No valid data found in the layer."))
    ELSE IF TooMany(Len(dicts.count))
    THEN done(FALSE, Box("warning", "Category Limit Exceeded", "Too many unique categories"))
    ELSE done(TRUE, msg)

\* sorted(sizes.items(), key=lambda x: x[1], reverse=True): a stable sort,
\* so equal sizes keep their insertion order
SortedBySizeDesc(items) ==
    LET n == Len(items)
        before(j, k) == RLess(items[k][2], items[j][2])
                            \/ (items[j][2] = items[k][2] /\ j < k)
        pos == [k \in 1..n |-> 1 + Cardinality({j \in 1..n : before(j, k)})]
    IN  [p \in 1..n |-> items[CHOOSE k \in 1..n : pos[k] = p]]

\* x_shift, y_shift from the extent of self.layer and the checkboxes
Shift(ext, w, h, cb) ==
    LET xmin_orig == ext[1]
        ymin_orig == ext[2]
        xmax_orig == ext[3]
        ymax_orig == ext[4]
        gap == RMul(RSub(ymax_orig, ymin_orig), <<1, 20>>)
        gap_2 == RMul(RSub(xmax_orig, xmin_orig), <<1, 20>>)
        xmid == RSub(RDiv(RAdd(xmin_orig, xmax_orig), R(2)), RDiv(w, R(2)))
        ymid == RSub(RDiv(RAdd(ymin_orig, ymax_orig), R(2)), RDiv(h, R(2)))
    IN  IF cb["Up"] THEN [x |-> xmid, y |-> RAdd(ymax_orig, gap)]
        ELSE IF cb["Down"] THEN [x |-> xmid, y |-> RSub(RSub(ymin_orig, h), gap)]
        ELSE IF cb["Left"] THEN [x |-> RSub(RSub(xmin_orig, w), gap_2), y |-> ymid]
        ELSE IF cb["Right"] THEN [x |-> RAdd(xmax_orig, gap_2), y |-> ymid]
        ELSE [x |-> xmid, y |-> RSub(RSub(ymin_orig, h), gap)]

Adjusted(rect, sh) ==
    <<RAdd(rect[1], sh.x), RAdd(rect[2], sh.y), RAdd(rect[3], sh.x), RAdd(rect[4], sh.y)>>

\* "cat = cats[i]": the category whose attributes feature i is given
FeatureCat(cats, i) == cats[i]

\* The try block of create_treemap_layer after compute_statistics()
\* returned True: the features of the new layer, or the exception.  Each
\* feature carries its polygon, the category and polygon count written to
\* its attributes, the size its area attributes derive from, and (ghost)
\* laid_for: the category whose size the partitioner laid the rectangle out
\* for.  The rounding of the attributes and the per-category statistics are
\* not modelled.
TreemapFeatures(layer, cd, sd, cb) ==
    LET sized == [p \in 1..Len(sd) |-> <<sd[p][1], Sum(sd[p][2])>>]
        areas_sorted == SortedBySizeDesc(sized)
        cats == [p \in 1..Len(areas_sorted) |-> areas_sorted[p][1]]
        sizes_list == [p \in 1..Len(areas_sorted) |-> areas_sorted[p][2]]
        total == Sum(sizes_list)
        h == Sqrt(RDiv(total, aspect))
        w == RMul(aspect, h)
        res == compute_treemap_rects(sizes_list, <<R(0), R(0), w, h>>, TRUE, 0,
                   DialogMaxDepth, 2, [first |-> 1, parent |-> <<>>])
        sh == Shift(layer.extent, w, h, cb)
        nb(c) == cd[CHOOSE p \in 1..Len(cd) : cd[p][1] = c][2]
    IN  [err |-> res.err,
         features |->
            [i \in 1..Len(res.out) |->
                [geom |-> Adjusted(res.out[i].rect, sh),
                 cat |-> FeatureCat(cats, i),
                 size |-> sizes_list[i],
                 nb_poly |-> nb(FeatureCat(cats, i)),
                 laid_for |-> cats[res.out[i].src]]]]

---------------------------------------------------------------------------
(* The state machine of Spec: one call of the pure function *)

\* ghost record of the last create_treemap_layer: the number of categories
\* counted, what compute_statistics returned, whether compute_treemap_rects
\* was invoked, whether the project gained a layer, the box shown
NoLast ==
    [op |-> "none", ncat |-> 0, stats_ok |-> FALSE, invoked |-> FALSE,
     added |-> FALSE, box |-> NoBox]

\* the dialog is not part of Spec
DialogIdle ==
    /\ combo_items = <<>> /\ combo_cur = 0
    /\ field_items = <<>> /\ field_cur = 0
    /\ checked = [x \in Boxes |-> FALSE]
    /\ self_layer = 0
    /\ count_dict = <<>> /\ surface_dict_m2 = <<>>
    /\ project = <<>>
    /\ msg = NoBox
    /\ last = NoLast
    /\ cleared = 0

Init ==
    /\ \E in \in Inputs :
          /\ sizes = in.sizes
          /\ outer_rect = in.outer_rect
          /\ horizontal = in.horizontal
          /\ depth = in.depth
          /\ max_depth = in.max_depth
          /\ frames = in.frames
    /\ pc = "ready"
    /\ rects = <<>>
    /\ src = <<>>
    /\ calls = {}
    /\ DialogIdle

Call ==
    /\ pc = "ready"
    /\ LET res == compute_treemap_rects(sizes, outer_rect, horizontal, depth, max_depth,
                      frames, [first |-> 1, parent |-> <<>>])
       IN  /\ pc' = IF res.err THEN "raised" ELSE "returned"
           /\ rects' = [i \in 1..Len(res.out) |-> res.out[i].rect]
           /\ src' = [i \in 1..Len(res.out) |-> res.out[i].src]
           /\ calls' = res.calls
    /\ UNCHANGED <<sizes, outer_rect, horizontal, depth, max_depth, frames>>
    /\ UNCHANGED dvars

Next == Call

Spec == Init /\ [][Next]_vars

---------------------------------------------------------------------------
(* The state machine of DialogSpec: one session of the dialog *)

\* no direct call of the partitioner is part of DialogSpec
CallIdle ==
    /\ sizes = <<>> /\ outer_rect = FirstRect /\ horizontal = TRUE
    /\ depth = 0 /\ max_depth = 0 /\ frames = 0
    /\ pc = "idle" /\ rects = <<>> /\ src = <<>> /\ calls = {}

\* __init__ / setup_ui: load_polygon_layers fills the combo box, whose
\* current item is then the first; nothing is checked
DialogInit ==
    /\ combo_items \in Projects
    /\ combo_cur = IF combo_items = <<>> THEN 0 ELSE 1
    /\ field_items = <<>> /\ field_cur = 0
    /\ checked = [x \in Boxes |-> FALSE]
    /\ self_layer = 0
    /\ count_dict = <<>> /\ surface_dict_m2 = <<>>
    /\ project = <<>>
    /\ msg = NoBox
    /\ last = NoLast
    /\ cleared = 0
    /\ CallIdle

\* the user picks another layer: currentIndexChanged -> on_polygon_layer_changed
SelectLayer(i) ==
    /\ i # combo_cur
    /\ combo_cur' = i
    /\ field_items' = <<>>
    /\ field_cur' = 0
    /\ UNCHANGED <<combo_items, checked, self_layer, count_dict, surface_dict_m2,
                   project, msg, last, cleared>>
    /\ UNCHANGED pvars

\* "Show attribute fields": load_attribute_fields
ShowFields ==
    /\ IF combo_cur = 0
       THEN /\ msg' = Box("warning", "Error", "Please select a polygon layer.")
            /\ UNCHANGED <<self_layer, field_items, field_cur>>
       ELSE /\ self_layer' = combo_cur
            /\ field_items' = CurrentLayer.fields
            /\ field_cur' = 1
            /\ UNCHANGED msg
    /\ UNCHANGED <<combo_items, combo_cur, checked, count_dict, surface_dict_m2,
                   project, last, cleared>>
    /\ UNCHANGED pvars

\* the user picks another attribute field
SelectField(k) ==
    /\ k # field_cur
    /\ field_cur' = k
    /\ UNCHANGED <<combo_items, combo_cur, field_items, checked, self_layer,
                   count_dict, surface_dict_m2, project, msg, last, cleared>>
    /\ UNCHANGED pvars

\* the user clicks a position checkbox: the box toggles and emits
\* stateChanged -> on_checkbox_changed, nested invocations included
ClickCheckbox(b) ==
    /\ checked' = on_checkbox_changed([checked EXCEPT ![b] = ~checked[b]], b, ~checked[b])
    /\ cleared' = Cardinality({x \in Boxes \ {b} : checked[x] /\ ~checked'[x]})
    /\ UNCHANGED <<combo_items, combo_cur, field_items, field_cur, self_layer,
                   count_dict, surface_dict_m2, project, msg, last>>
    /\ UNCHANGED pvars

\* "Generate the Treemap": create_treemap_layer
create_treemap_layer ==
    /\ Len(project) < MaxGenerated
    /\ LET st == compute_statistics
           seen(invoked) ==
               [op |-> "create", ncat |-> st.ncat, stats_ok |-> st.ok,
                invoked |-> invoked, added |-> project' # project, box |-> msg']
       IN
       /\ self_layer' = st.self_layer
       /\ count_dict' = st.count_dict
       /\ surface_dict_m2' = st.surface_dict_m2
       /\ IF ~st.ok
          THEN /\ msg' = st.msg
               /\ project' = project
               /\ last' = seen(FALSE)
          ELSE LET made == TreemapFeatures(combo_items[st.self_layer], st.count_dict,
                                           st.surface_dict_m2, checked)
               IN  /\ IF made.err
                      THEN /\ msg' = Box("critical", "Error", "An error has occurred")
                           /\ project' = project
                      ELSE /\ msg' = Box("information", "Success",
                                         "Treemap generated and added to the map.")
                           /\ project' = Append(project,
                                  [name |-> <<"Treemap", CurrentField, CurrentLayer.name>>,
                                   features |-> made.features])
                   /\ last' = seen(TRUE)
    /\ UNCHANGED <<combo_items, combo_cur, field_items, field_cur, checked, cleared>>
    /\ UNCHANGED pvars

DialogNext ==
    \/ \E i \in 1..Len(combo_items) : SelectLayer(i)
    \/ ShowFields
    \/ \E k \in 1..Len(field_items) : SelectField(k)
    \/ \E b \in Boxes : ClickCheckbox(b)
    \/ create_treemap_layer

DialogSpec == DialogInit /\ [][DialogNext]_vars

---------------------------------------------------------------------------
(* Vocabulary of the properties *)

Width(r) == RSub(r[3], r[1])

Height(r) == RSub(r[4], r[2])

Area(r) == RMul(Width(r), Height(r))

\* area(r) / area(o), for an outer rectangle o of positive width and height
AreaShare(r, o) ==
    RMul(RDiv(Width(r), Width(o)), RDiv(Height(r), Height(o)))

Positive(s) == \A i \in 1..Len(s) : RLess(Zero, s[i])

\* every weight is a unit or more, so no sub-total comes near 1e-6
WholeWeights(s) == \A i \in 1..Len(s) : RLeq(R(1), s[i])

\* width and height of a unit or more: well above 1e-6
WellAbove(r) == RLeq(R(1), Width(r)) /\ RLeq(R(1), Height(r))

RECURSIVE CeilLog2(_)
CeilLog2(n) == IF n <= 1 THEN 0 ELSE 1 + CeilLog2((n + 1) \div 2)

\* positive area in common
Overlap(a, b) ==
    /\ RLess(a[1], b[3]) /\ RLess(b[1], a[3])
    /\ RLess(a[2], b[4]) /\ RLess(b[2], a[4])

Inside(a, o) ==
    /\ RLeq(o[1], a[1]) /\ RLeq(a[3], o[3])
    /\ RLeq(o[2], a[2]) /\ RLeq(a[4], o[4])

RECURSIVE SumAreas(_)
SumAreas(rs) == IF rs = <<>> THEN Zero ELSE RAdd(Area(rs[1]), SumAreas(Tail(rs)))

Tiles(rs, o) ==
    /\ \A i, j \in 1..Len(rs) : i < j => ~Overlap(rs[i], rs[j])
    /\ \A i \in 1..Len(rs) : Inside(rs[i], o)
    /\ SumAreas(rs) = Area(o)

\* A call the cardinality contract is about, read generously: whole positive
\* weights, an outer rectangle well above 1e-6, depth 0, a shallow interpreter
\* stack, and a depth cap of at least twice the number of weights (which
\* is more than ceil(log2(n)) + 1 and can never be exhausted by splits that
\* make progress).
GenerousCall ==
    /\ pc = "returned"
    /\ Len(sizes) >= 1
    /\ WholeWeights(sizes)
    /\ WellAbove(outer_rect)
    /\ depth = 0
    /\ max_depth >= 2 * Len(sizes)
    /\ max_depth >= CeilLog2(Len(sizes)) + 1

---------------------------------------------------------------------------
(* C1 .. C3, C10: the contract properties the split scan breaks *)

\* C1 (cardinality): a call on n >= 1 positive weights, a well-conditioned
\* outer rectangle, depth 0 and a sufficient depth cap returns exactly n
\* rectangles.  Stated for the generous calls only, so that a violation
\* cannot come from an exhausted depth cap or a stability guard.
C1_Cardinality == GenerousCall => Len(rects) = Len(sizes)

\* C2 (non-overlap and coverage): the rectangles returned for positive
\* weights and a well-conditioned outer rectangle tile it exactly: no two
\* overlap, each lies inside, their areas sum to the outer area.
C2_Tiling == GenerousCall => Tiles(rects, outer_rect)

\* C3 (area proportionality): for every index i of the returned sequence,
\* area(rects[i]) / area(outer) = sizes[i] / total.
C3_Proportional ==
    GenerousCall =>
        \A i \in 1..Len(rects) :
            AreaShare(rects[i], outer_rect) = RDiv(sizes[i], Sum(sizes))

\* C10 (progress): every invocation on positive weights that reaches the
\* split step has 1 <= split_idx <= len(sizes) - 1, so both sides are
\* non-empty and each recursive call receives strictly fewer weights than
\* its caller.
C10_Progress ==
    \A c \in calls :
        (c.split_idx # 0 /\ Positive(c.sizes)) =>
            1 <= c.split_idx /\ c.split_idx <= Len(c.sizes) - 1

---------------------------------------------------------------------------
(* C5: single-item identity *)

SingleItemCall == pc # "ready" /\ Len(sizes) = 1 /\ RLess(Zero, sizes[1])

\* C5 as claimed: for every positive w, outer rectangle, orientation and
\* every depth and max_depth, compute_treemap_rects([w], outer, ...) returns
\* exactly [outer].
C5_SingleAnyDepth ==
    SingleItemCall => pc = "returned" /\ rects = <<outer_rect>>

\* C5 as amended: for every positive w, outer rectangle and orientation and
\* every depth < max_depth, the call returns exactly [outer]; with
\* depth >= max_depth it returns the empty list.
C5_SingleBelowCap ==
    SingleItemCall =>
        /\ pc = "returned"
        /\ depth < max_depth => rects = <<outer_rect>>
        /\ depth >= max_depth => rects = <<>>

\* a single weight below the 1e-6 floor on a rectangle thinner than 1e-6
\* came back unchanged
C5_Witness ==
    /\ SingleItemCall /\ pc = "returned"
    /\ RLess(sizes[1], Eps) /\ RLess(Height(outer_rect), Eps)
    /\ depth = 0 /\ max_depth = MaxDepth /\ ~horizontal
    /\ rects = <<outer_rect>>

---------------------------------------------------------------------------
(* C6: termination and depth bound *)

\* no recursive invocation is entered deeper than max_depth
DepthBounded == \A c \in calls : c.parent # <<>> => c.depth <= max_depth

\* a call entered at the cap returns the empty list
EmptyAtCap == (pc = "returned" /\ depth = max_depth) => rects = <<>>

\* C6 as claimed: for every weights, outer rectangle, orientation and
\* max_depth the call ends without raising, nests no deeper than max_depth
\* and returns the empty list when entered with depth = max_depth.
C6_NeverRaises ==
    pc # "ready" => pc = "returned" /\ DepthBounded /\ EmptyAtCap

\* the invocations still to be nested below the call: depth .. max_depth
NestingRoom == IF depth <= max_depth THEN max_depth - depth + 1 ELSE 1

\* C6 as amended: whenever the interpreter has frames left for the
\* max_depth - depth + 1 nested invocations (frames in use + that many
\* <= the recursion limit of 2000), the call ends without raising; and in
\* every case no recursive invocation is deeper than max_depth and a call
\* entered with depth = max_depth that returns, returns the empty list.
C6_BoundedNesting ==
    pc # "ready" =>
        /\ frames + NestingRoom <= recursionlimit => pc = "returned"
        /\ DepthBounded
        /\ EmptyAtCap

\* a call whose splits never make progress ran down to the cap: its
\* deepest invocation sits exactly at max_depth, and nothing was raised
C6_Witness ==
    /\ pc = "returned" /\ depth = 0 /\ max_depth = MaxDepth
    /\ \E c \in calls : c.depth = max_depth /\ Len(c.sizes) >= 2
    /\ rects = <<>>

---------------------------------------------------------------------------
(* C7: order preservation *)

\* earlier weights lie in the left/top group of the split that separates them
LeftOrAbove(a, b) == RLeq(a[3], b[1]) \/ RLeq(a[4], b[2])

\* C7: the output lists the rectangles in the order of the weights they
\* were laid out for, an earlier one left of or above a later one; and when
\* the first weight alone reaches half of the total, the first returned
\* rectangle is the first weight's and covers sizes[1]/total of the outer
\* area.
C7_OrderPreserved ==
    pc = "returned" =>
        /\ \A i, j \in 1..Len(rects) :
              i < j => src[i] < src[j] /\ LeftOrAbove(rects[i], rects[j])
        /\ (/\ rects # <<>>
            /\ RLeq(Sum(sizes), RMul(R(2), sizes[1])))
           => /\ src[1] = 1
              /\ AreaShare(rects[1], outer_rect) = RDiv(sizes[1], Sum(sizes))

\* the example [10, 1 x 10] on (0,0,4,1): eleven rectangles, the first is
\* the dominant item's and is the left half (0,0,2,1)
C7_Witness ==
    /\ pc = "returned" /\ sizes = Dominant /\ outer_rect = FirstRect
    /\ horizontal /\ depth = 0
    /\ Len(rects) = 11
    /\ src = [i \in 1..11 |-> i]
    /\ rects[1] = <<R(0), R(0), R(2), R(1)>>

---------------------------------------------------------------------------
(* C8: alternating axis *)

\* the rectangle r handed down by invocation p: a horizontal p cuts x and
\* keeps its y range, a vertical p cuts y and keeps its x range
CutsAxisOf(p, r) ==
    IF p.horizontal
    THEN r[2] = p.rect[2] /\ r[4] = p.rect[4] /\ RLeq(p.rect[1], r[1]) /\ RLeq(r[3], p.rect[3])
    ELSE r[1] = p.rect[1] /\ r[3] = p.rect[3] /\ RLeq(p.rect[2], r[2]) /\ RLeq(r[4], p.rect[4])

TwoByTwo ==
    << <<R(0), R(0), R(2), <<1, 2>>>>, <<R(0), <<1, 2>>, R(2), R(1)>>,
       <<R(2), R(0), R(4), <<1, 2>>>>, <<R(2), <<1, 2>>, R(4), R(1)>> >>

FourOnesCall ==
    /\ pc = "returned" /\ sizes = FourOnes /\ outer_rect = FirstRect
    /\ horizontal /\ depth = 0 /\ max_depth >= 3

\* C8: every recursive invocation receives the negation of its caller's
\* horizontal flag, so the children of an invocation that cut x cut y; and
\* [1,1,1,1] on (0,0,4,1) with horizontal = true gives two columns each cut
\* into two rows.
C8_Alternates ==
    /\ \A c \in calls :
          c.parent # <<>> =>
              /\ c.horizontal = ~c.parent[1].horizontal
              /\ CutsAxisOf(c.parent[1], c.rect)
    /\ FourOnesCall => rects = TwoByTwo

C8_Witness ==
    /\ FourOnesCall
    /\ rects = TwoByTwo
    /\ \E c \in calls : c.depth = 2 /\ c.horizontal /\ ~c.parent[1].horizontal

---------------------------------------------------------------------------
(* C4: position-for-position attribution in create_treemap_layer *)

\* C4: in every generated layer the i-th feature carries the rectangle the
\* partitioner laid out for category cats[i]: the category written to the
\* feature is the one its rectangle was computed for.
C4_PositionForPosition ==
    \A k \in 1..Len(project) :
        \A i \in 1..Len(project[k].features) :
            project[k].features[i].cat = project[k].features[i].laid_for

---------------------------------------------------------------------------
(* C9: the category limit *)

LimitBox == "Category Limit Exceeded"

\* C9: when the selected attribute has more than 50 unique categories,
\* compute_statistics reports it and returns False, and
\* create_treemap_layer ends without invoking compute_treemap_rects and
\* without adding a layer; with 1 to 50 categories the limit is not
\* reported, the partitioner is invoked and the layer is added.
C9_CategoryLimit ==
    last.op = "create" =>
        /\ last.ncat > MAX_CATEGORIES =>
              /\ ~last.stats_ok
              /\ last.box.title = LimitBox
              /\ ~last.invoked
              /\ ~last.added
        /\ (last.ncat >= 1 /\ last.ncat <= MAX_CATEGORIES) =>
              /\ last.stats_ok
              /\ last.box.title # LimitBox
              /\ last.invoked
              /\ last.added

\* Generate on a layer of 51 categories was refused: the limit box is up
\* and the project has no treemap layer
C9_Witness ==
    /\ last.op = "create"
    /\ last.ncat = MAX_CATEGORIES + 1
    /\ msg.title = LimitBox
    /\ ~last.invoked
    /\ project = <<>>

---------------------------------------------------------------------------
(* C11: the position checkboxes are mutually exclusive *)

CheckedBoxes == {x \in Boxes : checked[x]}

\* C11: after any sequence of clicks on the Up, Down, Left and Right
\* checkboxes, each followed by on_checkbox_changed and the invocations its
\* own setChecked(False) calls trigger, at most one of the four is checked.
C11_AtMostOneChecked == Cardinality(CheckedBoxes) <= 1

\* a box was checked while another one was: the handler unchecked that
\* other box and the clicked one is now the only one checked
C11_Witness ==
    /\ cleared = 1
    /\ Cardinality(CheckedBoxes) = 1

===========================================================================
